---- MODULE Spec2Model ----
(***************************************************************************)
(* A model of the quantum-teleportation repository:                        *)
(*   - QuantumDataTeleporter (quantum_data_teleporter.py): construction,   *)
(*     the per-bit teleportation circuit, and run_simulation;              *)
(*   - BB84Protocol (bb84.py): construction (compression, zero padding)    *)
(*     and run_protocol;                                                   *)
(*   - the two calculate_adaptive_shots formulas and the 8-bit chunking.   *)
(*                                                                         *)
(* Texts are sequences of character codes (0..255), bit strings are        *)
(* sequences of the one-character strings "0" and "1".  The simulator is   *)
(* the noiseless one (noise_model = False, BasicAer qasm_simulator): a     *)
(* circuit is run on a state vector with integer (unnormalised)            *)
(* amplitudes, and a measurement chooses any outcome of non-zero           *)
(* probability.                                                            *)
(***************************************************************************)
EXTENDS Integers, Sequences, FiniteSets, TLC

VARIABLES pc, exc, tele, teleRun, bb84, bb84Run, calc, chunk

vars == <<pc, exc, tele, teleRun, bb84, bb84Run, calc, chunk>>

(***************************************************************************)
(* Bounds of the model.                                                    *)
(***************************************************************************)
\* longest text (in characters) given to a constructor or read from a file
MaxTextLen == 2
\* longest compressor output (in characters)
MaxCompressedLen == 2
\* largest circuit_complexity tried in calculate_adaptive_shots
MaxComplexity == 4
\* largest text_length tried in calculate_adaptive_shots
MaxLengthArg == 35
\* largest base_shots / max_shots tried in calculate_adaptive_shots
MaxShotsArg == 3
\* longest piece of the lists tried in the chunking
MaxPieceLen == 3

\* character codes used in the texts: NUL, 'h', 0xFF
Chars == {0, 104, 255}
\* character codes used in the data given to BB84Protocol: NUL, 'h'
BB84_Chars == {0, 104}
\* character codes used in compressor outputs
CompChars == {27, 200}

RECURSIVE SeqsUpTo(_, _)
SeqsUpTo(S, n) ==
    IF n = 0 THEN {<< >>}
    ELSE LET shorter == SeqsUpTo(S, n - 1)
         IN  shorter \cup {Append(s, x) : s \in {t \in shorter : Len(t) = n - 1}, x \in S}

Texts == SeqsUpTo(Chars, MaxTextLen)
BB84_Texts == SeqsUpTo(BB84_Chars, MaxTextLen)
\* contents of the file at file_path: an empty file, a file holding "h"
FileContents == {<< >>, <<104>>}

\* Python's None, as an argument that is otherwise a text / a path
NoneText == << -1 >>
NonePath == "None"
FilePaths == {NonePath, "", "data/text.txt"}

\* Python truthiness of an optional str argument (a text, a path)
TruthyText(v) == v # NoneText /\ v # << >>
TruthyPath(v) == v # NonePath /\ v # ""

Min(a, b) == IF a <= b THEN a ELSE b
Max(a, b) == IF a >= b THEN a ELSE b

RECURSIVE Pow2(_)
Pow2(n) == IF n = 0 THEN 1 ELSE 2 * Pow2(n - 1)

(***************************************************************************)
(* utils (quantum_teleportation/utils.py): text <-> binary conversion.     *)
(***************************************************************************)
\* format(ord(ch), "08b")
ToBits8(n) == [i \in 1..8 |-> IF (n \div Pow2(8 - i)) % 2 = 1 THEN "1" ELSE "0"]

convert_text_to_binary(text) ==
    [i \in 1..(8 * Len(text)) |-> ToBits8(text[((i - 1) \div 8) + 1])[((i - 1) % 8) + 1]]

RECURSIVE BinToInt(_)
\* int(bits, 2)
BinToInt(bits) ==
    IF bits = << >> THEN 0
    ELSE 2 * BinToInt(SubSeq(bits, 1, Len(bits) - 1))
         + (IF bits[Len(bits)] = "1" THEN 1 ELSE 0)

\* chr(int(chunk, 2)) for every chunk
convert_binary_to_text(chunks) == [i \in 1..Len(chunks) |-> BinToInt(chunks[i])]

bit_flipper(bits) == [i \in 1..Len(bits) |-> IF bits[i] = "0" THEN "1" ELSE "0"]

\* the content of the file at path, in the file system fs
text_from_file(fs, path) == fs[path]

RECURSIVE Join(_)
\* "".join(list)
Join(list) == IF list = << >> THEN << >> ELSE Head(list) \o Join(Tail(list))

(***************************************************************************)
(* The simulator: circuits are sequences of instructions, run on a sparse  *)
(* state vector psi (basis state -> non-zero integer amplitude; qubit q is *)
(* bit q of the basis state's number).                                     *)
(***************************************************************************)
Gate(name, qubits, clbits) == [name |-> name, qubits |-> qubits, clbits |-> clbits]

Bit(b, q) == (b \div Pow2(q)) % 2
Flip(b, q) == IF Bit(b, q) = 1 THEN b - Pow2(q) ELSE b + Pow2(q)
Amp(psi, b) == IF b \in DOMAIN psi THEN psi[b] ELSE 0

ApplyX(psi, q) == [b \in {Flip(a, q) : a \in DOMAIN psi} |-> psi[Flip(b, q)]]

ApplyH(psi, q) ==
    LET new(b) == LET b0 == IF Bit(b, q) = 1 THEN Flip(b, q) ELSE b
                      b1 == IF Bit(b, q) = 1 THEN b ELSE Flip(b, q)
                  IN  IF Bit(b, q) = 0 THEN Amp(psi, b0) + Amp(psi, b1)
                                       ELSE Amp(psi, b0) - Amp(psi, b1)
        cand == (DOMAIN psi) \cup {Flip(a, q) : a \in DOMAIN psi}
    IN  [b \in {a \in cand : new(a) # 0} |-> new(b)]

CXMap(b, c, t) == IF Bit(b, c) = 1 THEN Flip(b, t) ELSE b
ApplyCX(psi, c, t) == [b \in {CXMap(a, c, t) : a \in DOMAIN psi} |-> psi[CXMap(b, c, t)]]

ApplyCZ(psi, c, t) ==
    [b \in DOMAIN psi |-> IF Bit(b, c) = 1 /\ Bit(b, t) = 1 THEN 0 - psi[b] ELSE psi[b]]

CCXMap(b, c1, c2, t) == IF Bit(b, c1) = 1 /\ Bit(b, c2) = 1 THEN Flip(b, t) ELSE b
ApplyCCX(psi, c1, c2, t) ==
    [b \in {CCXMap(a, c1, c2, t) : a \in DOMAIN psi} |-> psi[CCXMap(b, c1, c2, t)]]

ApplyGate(psi, g) ==
    CASE g.name = "x"   -> ApplyX(psi, g.qubits[1])
      [] g.name = "h"   -> ApplyH(psi, g.qubits[1])
      [] g.name = "cx"  -> ApplyCX(psi, g.qubits[1], g.qubits[2])
      [] g.name = "cz"  -> ApplyCZ(psi, g.qubits[1], g.qubits[2])
      [] g.name = "ccx" -> ApplyCCX(psi, g.qubits[1], g.qubits[2], g.qubits[3])
      [] OTHER          -> psi   \* barrier, id

\* the state after qubit q was measured with outcome m
Collapse(psi, q, m) == [b \in {a \in DOMAIN psi : Bit(a, q) = m} |-> psi[b]]

RECURSIVE Execute(_, _, _, _)
\* the classical registers one shot of circuit[k..] can end with
Execute(circuit, k, psi, creg) ==
    IF k > Len(circuit) THEN {creg}
    ELSE LET g == circuit[k]
         IN  IF g.name = "measure"
             THEN UNION { Execute(circuit, k + 1, Collapse(psi, g.qubits[1], m),
                                  [creg EXCEPT ![g.clbits[1]] = m])
                          : m \in {x \in {0, 1} : \E a \in DOMAIN psi : Bit(a, g.qubits[1]) = x} }
             ELSE Execute(circuit, k + 1, ApplyGate(psi, g), creg)

\* a key of get_counts(): the classical bits, highest index first
CountsKey(creg, nclbits) == [i \in 1..nclbits |-> IF creg[nclbits - i] = 1 THEN "1" ELSE "0"]

\* max(result.get_counts(), key=result.get_counts().get): the outcomes that can be
\* the most frequent one of a run of the circuit from |0...0>
MostFrequent(circuit, nclbits) ==
    {CountsKey(creg, nclbits) : creg \in Execute(circuit, 1, (0 :> 1), [c \in 0..(nclbits - 1) |-> 0])}

(***************************************************************************)
(* Numbers as Python computes them: twice the value (every value here is a *)
(* multiple of 1/2) and whether the object is a float.                     *)
(***************************************************************************)
IntNum(n) == [twice |-> 2 * n, float |-> FALSE]
FloatHalves(h) == [twice |-> h, float |-> TRUE]
NumAdd(a, b) == [twice |-> a.twice + b.twice, float |-> a.float \/ b.float]
\* the object is an int
IsInt(x) == ~x.float /\ x.twice % 2 = 0

\* confidence levels are counted in hundredths: 0.90 is 90
Confidence090 == 90

\* MinComplexity15 without the cap
MinComplexity15_uncapped(circuit_complexity, room) == FloatHalves(3 * circuit_complexity)

\* min(circuit_complexity * 1.5, max_shots - base_shots): Python's min returns its
\* first argument (the float) unless the second is strictly smaller
MinComplexity15(circuit_complexity, room) ==
    IF 3 * circuit_complexity <= 2 * room THEN FloatHalves(3 * circuit_complexity)
                                          ELSE IntNum(room)

\* round(x / 20) for an integer x >= 0: Python rounds a half to the even neighbour
RoundHalfEven20(x) ==
    LET q == x \div 20
        r == x % 20
    IN  IF r < 10 THEN q
        ELSE IF r > 10 THEN q + 1
        ELSE IF q % 2 = 0 THEN q ELSE q + 1

(***************************************************************************)
(* QuantumDataTeleporter                                                   *)
(***************************************************************************)
QDT_base_shots == 0
QDT_max_shots == 5
\* execute(circuit, backend=simulator, shots=1)
QDT_execute_shots == 1
\* QuantumCircuit(6, 6)
QDT_clbits == 6

QDT_calculate_adaptive_shots(circuit_complexity, confidence_level, base_shots, max_shots) ==
    LET room == max_shots - base_shots
        additional_shots ==
            IF confidence_level > Confidence090
            THEN MinComplexity15(circuit_complexity, room)
            ELSE IntNum(Min(circuit_complexity * 5, room))
    IN  NumAdd(IntNum(base_shots), additional_shots)

\* QDT_handle_flipped_results with slices merged_binary[i : i + 7]
QDT_handle_flipped_results_short(flipped_results) ==
    LET merged_binary == Join(flipped_results)
        n == Len(merged_binary)
    IN  [k \in 1..((n + 7) \div 8) |-> SubSeq(merged_binary, 8 * (k - 1) + 1, Min(8 * k - 1, n))]

QDT_handle_flipped_results(flipped_results) ==
    LET merged_binary == Join(flipped_results)
        n == Len(merged_binary)
    IN  [k \in 1..((n + 7) \div 8) |-> SubSeq(merged_binary, 8 * (k - 1) + 1, Min(8 * k, n))]

\* QDT_circuit without the correction cx(1, 2) after the measurement of qubits 0, 1
QDT_circuit_uncorrected(bit) ==
    << Gate("x", << IF bit = "1" THEN 1 ELSE 0 >>, << >>),
       Gate("barrier", << >>, << >>),
       Gate("h", <<1>>, << >>),
       Gate("cx", <<1, 2>>, << >>),
       Gate("barrier", << >>, << >>),
       Gate("cx", <<0, 1>>, << >>),
       Gate("h", <<0>>, << >>),
       Gate("barrier", << >>, << >>),
       Gate("measure", <<0>>, <<0>>),
       Gate("measure", <<1>>, <<1>>),
       Gate("cz", <<0, 2>>, << >>),
       Gate("measure", <<2>>, <<2>>),
       Gate("barrier", << >>, << >>),
       Gate("measure", <<0>>, <<3>>),
       Gate("measure", <<1>>, <<4>>),
       Gate("measure", <<2>>, <<5>>),
       Gate("cx", <<3, 4>>, << >>),
       Gate("cx", <<3, 5>>, << >>),
       Gate("cx", <<4, 5>>, << >>),
       Gate("barrier", << >>, << >>),
       Gate("ccx", <<3, 4, 5>>, << >>),
       Gate("measure", <<5>>, <<0>>) >>

\* the instructions create_circuits appends to the circuit of one bit
QDT_circuit(bit) ==
    << Gate("x", << IF bit = "1" THEN 1 ELSE 0 >>, << >>),
       Gate("barrier", << >>, << >>),
       Gate("h", <<1>>, << >>),
       Gate("cx", <<1, 2>>, << >>),
       Gate("barrier", << >>, << >>),
       Gate("cx", <<0, 1>>, << >>),
       Gate("h", <<0>>, << >>),
       Gate("barrier", << >>, << >>),
       Gate("measure", <<0>>, <<0>>),
       Gate("measure", <<1>>, <<1>>),
       Gate("cx", <<1, 2>>, << >>),
       Gate("cz", <<0, 2>>, << >>),
       Gate("measure", <<2>>, <<2>>),
       Gate("barrier", << >>, << >>),
       Gate("measure", <<0>>, <<3>>),
       Gate("measure", <<1>>, <<4>>),
       Gate("measure", <<2>>, <<5>>),
       Gate("cx", <<3, 4>>, << >>),
       Gate("cx", <<3, 5>>, << >>),
       Gate("cx", <<4, 5>>, << >>),
       Gate("barrier", << >>, << >>),
       Gate("ccx", <<3, 4, 5>>, << >>),
       Gate("measure", <<5>>, <<0>>) >>

create_circuits(binary_text) == [i \in 1..Len(binary_text) |-> QDT_circuit(binary_text[i])]

\* QDT_missing_input with "or" for "and"
QDT_missing_input_either(file_path, text_to_send) ==
    ~TruthyPath(file_path) \/ ~TruthyText(text_to_send)

\* the condition under which __init__ raises ValueError
QDT_missing_input(file_path, text_to_send) ==
    ~TruthyPath(file_path) /\ ~TruthyText(text_to_send)

\* the classical bit run_simulation reads from an outcome: bit_flipper(res[0])
QDT_read_bit(res) == bit_flipper(<< res[1] >>)

\* args: the arguments __init__ was called with
TeleNew == [args |-> [shots |-> 0, file_path |-> NonePath, text_to_send |-> NoneText],
            attrs |-> {}, shots |-> IntNum(0), text_to_send |-> << >>,
            binary_text |-> << >>, circuits |-> << >>]
TeleRunNew == [idx |-> 0, flipped_results |-> << >>, res |-> << >>, shots_used |-> {},
               converted_chunks |-> << >>, matched |-> FALSE]
\* args_shots: the shots __init__ was called with; generated: the key and base bits
\* as generate_random_bits returned them; compressed_data: the compressor's output
BB84New == [args_shots |-> 0, generated |-> [key_bits |-> << >>, base_bits |-> << >>],
            data |-> << >>, compression |-> "False", shots |-> IntNum(0),
            compressed_data |-> << >>, binary_data |-> << >>, data_length |-> 0,
            key_bits |-> << >>, base_bits |-> << >>]
BB84RunNew == [idx |-> 0, encoded_data |-> << >>, flipped_results |-> << >>,
               shots_used |-> {},
               decompress_input |-> << >>, decoded_text |-> << >>, matched |-> FALSE]
CalcNew == [circuit_complexity |-> 0, text_length |-> 0, confidence_level |-> 0,
            base_shots |-> 0, max_shots |-> 0, done |-> {},
            qdt |-> IntNum(0), bb84 |-> IntNum(0)]
ChunkNew == [flipped_results |-> << >>, done |-> {}, bytes_list |-> << >>, sliced |-> << >>]

\* shots values given to the constructors
QDT_ShotsArgs == {1, 3}

\* QuantumDataTeleporter.__init__
QDT_init(shots, file_path, text_to_send, content) ==
    /\ pc = "new"
    /\ IF QDT_missing_input(file_path, text_to_send)
       THEN /\ pc' = "raised"
            /\ exc' = "ValueError"
            /\ tele' = [tele EXCEPT !.args = [shots |-> shots, file_path |-> file_path,
                                              text_to_send |-> text_to_send]]
       ELSE LET text == IF TruthyPath(file_path)
                        THEN text_from_file((file_path :> content), file_path)
                        ELSE text_to_send
                binary_text == convert_text_to_binary(text)
            IN  /\ pc' = "constructed"
                /\ exc' = exc
                /\ tele' = [args |-> [shots |-> shots, file_path |-> file_path,
                                      text_to_send |-> text_to_send],
                            attrs |-> {"shots", "text_to_send", "binary_text",
                                       "circuits", "noise_model"},
                            shots |-> IntNum(shots),
                            text_to_send |-> text,
                            binary_text |-> binary_text,
                            circuits |-> create_circuits(binary_text)]
    /\ UNCHANGED <<teleRun, bb84, bb84Run, calc, chunk>>

\* run_simulation up to its loop: the adaptive shot count
\* self.calculate_adaptive_shots(len(self.circuits[0] if self.circuits else 0))
QDT_run_simulation_begin ==
    /\ pc = "constructed"
    /\ IF tele.circuits = << >>
       THEN \* len(0)
            /\ pc' = "raised"
            /\ exc' = "TypeError"
            /\ tele' = tele
       ELSE /\ pc' = "loop"
            /\ exc' = exc
            /\ tele' = [tele EXCEPT !.shots =
                           QDT_calculate_adaptive_shots(Len(tele.circuits[1]), Confidence090,
                                                        QDT_base_shots, QDT_max_shots)]
    /\ UNCHANGED <<teleRun, bb84, bb84Run, calc, chunk>>

\* one iteration of "for circuit in self.circuits"
QDT_run_simulation_execute ==
    /\ pc = "loop"
    /\ teleRun.idx < Len(tele.circuits)
    /\ \E res \in MostFrequent(tele.circuits[teleRun.idx + 1], QDT_clbits) :
          teleRun' = [teleRun EXCEPT
                        !.idx = @ + 1,
                        !.res = res,
                        !.shots_used = @ \cup {QDT_execute_shots},
                        !.flipped_results = Append(@, QDT_read_bit(res))]
    /\ UNCHANGED <<pc, exc, tele, bb84, bb84Run, calc, chunk>>

\* run_simulation after its loop: chunking, conversion, comparison
QDT_run_simulation_end ==
    /\ pc = "loop"
    /\ teleRun.idx = Len(tele.circuits)
    /\ LET binary_chunks == QDT_handle_flipped_results(teleRun.flipped_results)
           converted_chunks == convert_binary_to_text(binary_chunks)
       IN  teleRun' = [teleRun EXCEPT !.converted_chunks = converted_chunks,
                                      !.matched = (converted_chunks = tele.text_to_send)]
    /\ pc' = "done"
    /\ UNCHANGED <<exc, tele, bb84, bb84Run, calc, chunk>>

(***************************************************************************)
(* compression_utils (quantum_teleportation/compression_utils.py)          *)
(***************************************************************************)
\* what brotli_compression(binary_data) / adaptive_compression(binary_data)[0] can
\* return: a non-empty text, shorter or longer than the data it compresses
CompressedTexts == SeqsUpTo(CompChars, MaxCompressedLen) \ {<< >>}

\* what decompress_data returns for a text that is not the compressor's output
DecompressFailed == << -2 >>

\* decompress_data(text, compression): the identity without compression, and
\* otherwise the inverse of the compressor that produced compressed_data from data
decompress_data(text, compression, compressed_data, data) ==
    IF compression = "False" THEN text
    ELSE IF text = compressed_data THEN data
    ELSE DecompressFailed

(***************************************************************************)
(* BB84Protocol                                                            *)
(***************************************************************************)
BB84_base_shots == 250
BB84_max_shots == 4096
\* QuantumCircuit(1, 1)
BB84_clbits == 1
\* shots = -1 asks for the adaptive shot count
BB84_adaptive == -1

\* padding on the right (str.ljust(width, "0")) instead of on the left
zfill_right(s, width) == IF Len(s) >= width THEN s ELSE s \o [i \in 1..(width - Len(s)) |-> "0"]

\* str.zfill(width)
zfill(s, width) == IF Len(s) >= width THEN s ELSE [i \in 1..(width - Len(s)) |-> "0"] \o s

\* generate_random_bits(length): the strings tried among the 2^length possible ones
generate_random_bits(length) ==
    { [i \in 1..length |-> "0"],
      [i \in 1..length |-> IF i % 2 = 0 THEN "1" ELSE "0"] }

BB84_calculate_adaptive_shots(circuit_complexity, text_length, confidence_level, base_shots, max_shots) ==
    LET room == max_shots - base_shots
        additional_shots_complexity == Min(circuit_complexity * 5, room)
        \* min(text_length * 0.1, room), in tenths
        additional_shots_length10 == Min(text_length, 10 * room)
        additional_shots ==
            IF confidence_level > Confidence090
            THEN MinComplexity15(circuit_complexity, room)
            ELSE IntNum(RoundHalfEven20(10 * additional_shots_complexity
                                        + additional_shots_length10))
    IN  NumAdd(IntNum(base_shots), additional_shots)

\* BB84_circuit with the x gate on the "0" bits
BB84_circuit_inverted(bit) ==
    << Gate(IF bit = "0" THEN "x" ELSE "id", <<0>>, << >>),
       Gate("barrier", << >>, << >>),
       Gate("measure", <<0>>, <<0>>) >>

\* the circuit run_protocol builds for one bit
BB84_circuit(bit) ==
    << Gate(IF bit = "1" THEN "x" ELSE "id", <<0>>, << >>),
       Gate("barrier", << >>, << >>),
       Gate("measure", <<0>>, <<0>>) >>

\* [decoded_binary[i : i + 8] for i in range(0, len(decoded_binary), 8)]
BB84_slice(decoded_binary) ==
    LET n == Len(decoded_binary)
    IN  [k \in 1..((n + 7) \div 8) |-> SubSeq(decoded_binary, 8 * (k - 1) + 1, Min(8 * k, n))]

\* "Ensure all strings are of equal length"
BB84_pad(binary_data, key_bits, base_bits) ==
    LET max_length == Max(Len(binary_data), Max(Len(key_bits), Len(base_bits)))
    IN  [binary_data |-> zfill(binary_data, max_length),
         key_bits |-> zfill(key_bits, max_length),
         base_bits |-> zfill(base_bits, max_length)]

BB84_Compressions == {"brotli", "adaptive", "False"}
BB84_ShotsArgs == {BB84_adaptive, 3}

\* BB84Protocol.__init__; compressed_data is what the compressor returns
BB84_init(data, compression, shots, key_bits, base_bits, compressed_data) ==
    /\ pc = "new"
    /\ LET binary_data == IF compression \in {"brotli", "adaptive"}
                          THEN convert_text_to_binary(compressed_data)
                          ELSE convert_text_to_binary(data)
           padded == BB84_pad(binary_data, key_bits, base_bits)
       IN  bb84' = [args_shots |-> shots,
                    generated |-> [key_bits |-> key_bits, base_bits |-> base_bits],
                    data |-> data, compression |-> compression, shots |-> IntNum(shots),
                    compressed_data |-> compressed_data,
                    data_length |-> Len(convert_text_to_binary(data)),
                    binary_data |-> padded.binary_data,
                    key_bits |-> padded.key_bits,
                    base_bits |-> padded.base_bits]
    /\ pc' = "constructed"
    /\ UNCHANGED <<exc, tele, teleRun, bb84Run, calc, chunk>>

\* run_protocol up to its loop
BB84_run_protocol_begin ==
    /\ pc = "constructed"
    /\ bb84' = [bb84 EXCEPT !.shots =
                  IF @ = IntNum(BB84_adaptive)
                  THEN BB84_calculate_adaptive_shots(Len(bb84.binary_data), Len(bb84.binary_data),
                                                     Confidence090, BB84_base_shots,
                                                     BB84_max_shots)
                  ELSE @]
    /\ bb84Run' = [bb84Run EXCEPT !.encoded_data = bb84.binary_data]
    /\ pc' = "loop"
    /\ UNCHANGED <<exc, tele, teleRun, calc, chunk>>

\* one iteration of "for bit in encoded_data"
BB84_run_protocol_execute ==
    /\ pc = "loop"
    /\ bb84Run.idx < Len(bb84Run.encoded_data)
    /\ \E res \in MostFrequent(BB84_circuit(bb84Run.encoded_data[bb84Run.idx + 1]), BB84_clbits) :
          bb84Run' = [bb84Run EXCEPT !.idx = @ + 1,
                                     !.shots_used = @ \cup {bb84.shots},
                                     !.flipped_results = Append(@, res)]
    /\ UNCHANGED <<pc, exc, tele, teleRun, bb84, calc, chunk>>

\* run_protocol after its loop: reassembly, decompression, comparison
BB84_run_protocol_end ==
    /\ pc = "loop"
    /\ bb84Run.idx = Len(bb84Run.encoded_data)
    /\ LET decoded_binary == Join(bb84Run.flipped_results)
           text == convert_binary_to_text(BB84_slice(decoded_binary))
           decoded_text == decompress_data(text, bb84.compression, bb84.compressed_data,
                                           bb84.data)
       IN  bb84Run' = [bb84Run EXCEPT !.decompress_input = text,
                                      !.decoded_text = decoded_text,
                                      !.matched = (decoded_text = bb84.data)]
    /\ pc' = "done"
    /\ UNCHANGED <<exc, tele, teleRun, bb84, calc, chunk>>

NextBB84 ==
    \/ \E data \in BB84_Texts, compression \in BB84_Compressions, shots \in BB84_ShotsArgs :
          \E key_bits \in generate_random_bits(8 * Len(data)),
             base_bits \in generate_random_bits(8 * Len(data)),
             compressed_data \in (IF compression = "False" THEN {<< >>} ELSE CompressedTexts) :
             BB84_init(data, compression, shots, key_bits, base_bits, compressed_data)
    \/ BB84_run_protocol_begin
    \/ BB84_run_protocol_execute
    \/ BB84_run_protocol_end

(***************************************************************************)
(* calculate_adaptive_shots and the chunking, applied to chosen arguments. *)
(***************************************************************************)
ConfidenceLevels == {50, 90, 91, 100}

Calc_QDT ==
    /\ pc = "args"
    /\ "qdt" \notin calc.done
    /\ calc' = [calc EXCEPT !.done = @ \cup {"qdt"},
                            !.qdt = QDT_calculate_adaptive_shots(
                                        calc.circuit_complexity, calc.confidence_level,
                                        calc.base_shots, calc.max_shots)]
    /\ UNCHANGED <<pc, exc, tele, teleRun, bb84, bb84Run, chunk>>

Calc_BB84 ==
    /\ pc = "args"
    /\ "bb84" \notin calc.done
    /\ calc' = [calc EXCEPT !.done = @ \cup {"bb84"},
                            !.bb84 = BB84_calculate_adaptive_shots(
                                         calc.circuit_complexity, calc.text_length,
                                         calc.confidence_level, calc.base_shots,
                                         calc.max_shots)]
    /\ UNCHANGED <<pc, exc, tele, teleRun, bb84, bb84Run, chunk>>

InitShots ==
    /\ pc = "args"
    /\ exc = "none"
    /\ tele = TeleNew
    /\ teleRun = TeleRunNew
    /\ bb84 = BB84New
    /\ bb84Run = BB84RunNew
    /\ chunk = ChunkNew
    /\ \E c \in 0..MaxComplexity, n \in 0..MaxLengthArg, conf \in ConfidenceLevels,
          base \in 0..MaxShotsArg, max \in 0..MaxShotsArg :
          calc = [circuit_complexity |-> c, text_length |-> n, confidence_level |-> conf,
                  base_shots |-> base, max_shots |-> max, done |-> {},
                  qdt |-> IntNum(0), bb84 |-> IntNum(0)]

NextShots == Calc_QDT \/ Calc_BB84

SpecShots == InitShots /\ [][NextShots]_vars

\* s cut into pieces of p characters (the last one may be shorter)
Pieces(s, p) ==
    [k \in 1..((Len(s) + p - 1) \div p) |-> SubSeq(s, p * (k - 1) + 1, Min(p * k, Len(s)))]

\* lists of measured bit strings: the bits of a text, or a prefix of them, in pieces
FlippedResultsLists ==
    { Pieces(SubSeq(convert_text_to_binary(t), 1, Min(n, 8 * Len(t))), p) :
        t \in Texts, n \in {0, 5, 8, 11, 16, 24, 32}, p \in 1..MaxPieceLen }

Chunk_handle_flipped_results ==
    /\ pc = "args"
    /\ "qdt" \notin chunk.done
    /\ chunk' = [chunk EXCEPT !.done = @ \cup {"qdt"},
                              !.bytes_list = QDT_handle_flipped_results(chunk.flipped_results)]
    /\ UNCHANGED <<pc, exc, tele, teleRun, bb84, bb84Run, calc>>

Chunk_slice ==
    /\ pc = "args"
    /\ "bb84" \notin chunk.done
    /\ chunk' = [chunk EXCEPT !.done = @ \cup {"bb84"},
                              !.sliced = BB84_slice(Join(chunk.flipped_results))]
    /\ UNCHANGED <<pc, exc, tele, teleRun, bb84, bb84Run, calc>>

InitChunks ==
    /\ pc = "args"
    /\ exc = "none"
    /\ tele = TeleNew
    /\ teleRun = TeleRunNew
    /\ bb84 = BB84New
    /\ bb84Run = BB84RunNew
    /\ calc = CalcNew
    /\ \E list \in FlippedResultsLists :
          chunk = [flipped_results |-> list, done |-> {}, bytes_list |-> << >>,
                   sliced |-> << >>]

NextChunks == Chunk_handle_flipped_results \/ Chunk_slice

SpecChunks == InitChunks /\ [][NextChunks]_vars

Init ==
    /\ pc = "new"
    /\ exc = "none"
    /\ tele = TeleNew
    /\ teleRun = TeleRunNew
    /\ bb84 = BB84New
    /\ bb84Run = BB84RunNew
    /\ calc = CalcNew
    /\ chunk = ChunkNew

Next ==
    \/ \E shots \in QDT_ShotsArgs, file_path \in FilePaths,
          text_to_send \in Texts \cup {NoneText}, content \in FileContents :
          QDT_init(shots, file_path, text_to_send, content)
    \/ QDT_run_simulation_begin
    \/ QDT_run_simulation_execute
    \/ QDT_run_simulation_end

Spec == Init /\ [][Next]_vars

SpecBB84 == Init /\ [][NextBB84]_vars

(***************************************************************************)
(* The claims.                                                             *)
(***************************************************************************)
\* the bits that were read so far are the bits of sent, in order
ReadSoFar(flipped_results, sent) ==
    /\ Len(flipped_results) <= Len(sent)
    /\ \A i \in 1..Len(flipped_results) : flipped_results[i] = << sent[i] >>

\* C1: for a non-empty text (noiseless simulator), the bit run_simulation reads from
\* every circuit (the leftmost character of the outcome, after bit_flipper) is the
\* corresponding bit of the text's binary string, whatever the outcomes of the
\* measurements of qubits 0 and 1, and run_simulation returns (text, True).
C1_TeleporterRoundTrip ==
    /\ pc \in {"loop", "done"} => ReadSoFar(teleRun.flipped_results, tele.binary_text)
    /\ pc = "done" => /\ teleRun.converted_chunks = tele.text_to_send
                      /\ teleRun.matched

\* a run over "h\xff" is done, and the last circuit's measurements of qubits 0 and 1
\* both gave 1
C1_Witness ==
    /\ pc = "done"
    /\ tele.text_to_send = <<104, 255>>
    /\ teleRun.res = <<"0", "1", "1", "0", "1", "0">>
    /\ Len(teleRun.flipped_results) = 16

\* C2: without compression (noiseless simulator), for every text and shots setting,
\* the i-th measured bit is the i-th bit of binary_data, the decoded bit string has
\* the length of binary_data, and run_protocol returns (data, True).
C2_BB84RoundTrip ==
    bb84.compression = "False" =>
        /\ pc \in {"loop", "done"} => ReadSoFar(bb84Run.flipped_results, bb84.binary_data)
        /\ pc = "done" => /\ Len(Join(bb84Run.flipped_results)) = Len(bb84.binary_data)
                          /\ bb84Run.decoded_text = bb84.data
                          /\ bb84Run.matched

\* a run over "h\0" without compression and with the adaptive shot count is done
C2_Witness ==
    /\ pc = "done"
    /\ bb84.compression = "False"
    /\ bb84.data = <<104, 0>>
    /\ bb84.args_shots = BB84_adaptive
    /\ bb84Run.shots_used = {IntNum(291)}
    /\ Len(bb84Run.flipped_results) = 16

\* base_shots <= x <= max_shots
InShotRange(x, base_shots, max_shots) ==
    2 * base_shots <= x.twice /\ x.twice <= 2 * max_shots

\* C3: for base_shots <= max_shots (integers) and non-negative integer
\* circuit_complexity and text_length, both calculate_adaptive_shots return a value
\* in [base_shots, max_shots], in the default and the confidence_level > 0.90 branch.
C3_ShotsInRange ==
    calc.base_shots <= calc.max_shots =>
        /\ "qdt" \in calc.done => InShotRange(calc.qdt, calc.base_shots, calc.max_shots)
        /\ "bb84" \in calc.done => InShotRange(calc.bb84, calc.base_shots, calc.max_shots)

\* both functions were applied, in the confidence_level > 0.90 branch, where the cap
\* max_shots - base_shots is what is returned
C3_Witness ==
    /\ calc.done = {"qdt", "bb84"}
    /\ calc.confidence_level > Confidence090
    /\ calc.circuit_complexity = 3
    /\ calc.base_shots = 1 /\ calc.max_shots = 3
    /\ calc.qdt = IntNum(3) /\ calc.bb84 = IntNum(3)

\* C4: the value calculate_adaptive_shots returns is an integer for every
\* confidence_level, including those above 0.90.
C4_ShotsInteger ==
    calc.base_shots <= calc.max_shots =>
        /\ "qdt" \in calc.done => IsInt(calc.qdt)
        /\ "bb84" \in calc.done => IsInt(calc.bb84)

\* chunks are k chunks of 8 bits each that join to the concatenation of list
ByteChunksOf(chunks, list, k) ==
    /\ Len(chunks) = k
    /\ \A i \in 1..Len(chunks) : Len(chunks[i]) = 8
    /\ Join(chunks) = Join(list)

\* C5: for a list of bit strings whose concatenation has 8k bits (k >= 0),
\* handle_flipped_results returns k chunks of 8 bits each, in order, that join to the
\* concatenation (the empty list for k = 0); so does the slicing in run_protocol.
C5_ByteChunks ==
    LET n == Len(Join(chunk.flipped_results))
    IN  n % 8 = 0 =>
          /\ "qdt" \in chunk.done =>
                ByteChunksOf(chunk.bytes_list, chunk.flipped_results, n \div 8)
          /\ "bb84" \in chunk.done =>
                ByteChunksOf(chunk.sliced, chunk.flipped_results, n \div 8)

\* 16 bits given in pieces of 3 bits were cut into 2 chunks by both
C5_Witness ==
    /\ chunk.done = {"qdt", "bb84"}
    /\ Len(chunk.flipped_results) = 6
    /\ Len(chunk.flipped_results[1]) = 3
    /\ Len(Join(chunk.flipped_results)) = 16
    /\ Len(chunk.bytes_list) = 2
    /\ chunk.bytes_list # <<ToBits8(0), ToBits8(0)>>

\* __init__ was given neither a file_path nor a text_to_send (each None or empty)
C6_NeitherGiven ==
    /\ tele.args.file_path \in {NonePath, ""}
    /\ tele.args.text_to_send \in {NoneText, << >>}

\* C6: with neither file_path nor text_to_send, __init__ raises ValueError before any
\* attribute is set and before any circuit is built; with at least one of them it
\* raises no ValueError and builds exactly one circuit per bit of the binary string.
C6_ConstructorInput ==
    pc # "new" =>
        IF C6_NeitherGiven
        THEN pc = "raised" /\ exc = "ValueError" /\ tele.attrs = {} /\ tele.circuits = << >>
        ELSE /\ exc # "ValueError"
             /\ "circuits" \in tele.attrs
             /\ Len(tele.binary_text) = 8 * Len(tele.text_to_send)
             /\ Len(tele.circuits) = Len(tele.binary_text)

\* constructed from a text alone (no file_path), with 16 circuits
C6_Witness ==
    /\ pc = "constructed"
    /\ tele.args.file_path = NonePath
    /\ tele.args.text_to_send = <<104, 255>>
    /\ Len(tele.circuits) = 16

\* padded is orig with only "0" characters added in front
LeadingZerosAdded(padded, orig) ==
    /\ Len(padded) >= Len(orig)
    /\ SubSeq(padded, Len(padded) - Len(orig) + 1, Len(padded)) = orig
    /\ \A i \in 1..(Len(padded) - Len(orig)) : padded[i] = "0"

\* the binary string __init__ has before the padding
C7_Unpadded ==
    convert_text_to_binary(IF bb84.compression = "False" THEN bb84.data
                                                         ELSE bb84.compressed_data)

\* C7: after construction, for every text and compression setting, binary_data,
\* key_bits and base_bits have the same length, a multiple of 8, and the padding only
\* added leading "0" characters.
C7_EqualLengths ==
    pc # "new" =>
        /\ Len(bb84.binary_data) = Len(bb84.key_bits)
        /\ Len(bb84.key_bits) = Len(bb84.base_bits)
        /\ Len(bb84.binary_data) % 8 = 0
        /\ LeadingZerosAdded(bb84.binary_data, C7_Unpadded)
        /\ LeadingZerosAdded(bb84.key_bits, bb84.generated.key_bits)
        /\ LeadingZerosAdded(bb84.base_bits, bb84.generated.base_bits)

\* the compressed form is longer than the text: the non-zero key bits were padded
C7_Witness ==
    /\ pc = "constructed"
    /\ bb84.compression = "brotli"
    /\ Len(bb84.data) = 1
    /\ Len(bb84.compressed_data) = 2
    /\ Len(bb84.key_bits) = 16
    /\ bb84.generated.key_bits = <<"0", "1", "0", "1", "0", "1", "0", "1">>

\* C8: the shots given to the constructor are the shots run_simulation executes each
\* circuit with, and the shots it stores in self.shots are the shots it used.
C8_ShotsUsed ==
    (pc \in {"loop", "done"} /\ teleRun.idx > 0) =>
        /\ teleRun.shots_used = {tele.args.shots}
        /\ \A n \in teleRun.shots_used : tele.shots = IntNum(n)

\* C9: with compression, the bit string run_protocol encodes is the binary
\* representation of the compressor's output, the text handed to decompress_data is
\* the compressor's output, and run_protocol returns (data, True).
C9_CompressedRoundTrip ==
    bb84.compression \in {"brotli", "adaptive"} =>
        /\ pc # "new" => bb84.binary_data = convert_text_to_binary(bb84.compressed_data)
        /\ pc = "done" => /\ bb84Run.decompress_input = bb84.compressed_data
                          /\ bb84Run.decoded_text = bb84.data
                          /\ bb84Run.matched

\* C10: with no circuits (an empty file), run_simulation raises nothing and returns
\* ("", True).
C10_EmptyRun ==
    ("circuits" \in tele.attrs /\ tele.circuits = << >>) =>
        /\ pc \in {"constructed", "loop", "done"}
        /\ exc = "none"
        /\ pc = "done" => teleRun.converted_chunks = << >> /\ teleRun.matched

====
